---- MODULE Spec2Model ----
(***************************************************************************)
(* Model of the two NVDA return-analysis scripts:                          *)
(*   scripts_generate_nvda_returns_excel_Version2.py  ("value mode":       *)
(*       statistics computed with numpy/pandas and written as numbers)     *)
(*   scripts/generate_nvda_returns_excel.py           ("formula mode":     *)
(*       statistics written as Excel formulas, evaluated by the sheet)     *)
(*                                                                         *)
(* Numbers.  Prices are positive integers.  A return is an exact multiple  *)
(* of 1/Unit and is held as that integer multiple (Unit = 200: 0.10 is 20, *)
(* 0.015 is 3, 5.0 is 1000).  Every derived statistic is an exact rational *)
(* [kind, num, den] in the same unit.  Floating-point rounding is outside  *)
(* the model: all arithmetic is exact.                                     *)
(***************************************************************************)
EXTENDS Integers, Sequences, FiniteSets, TLC

VARIABLES
    prices,       \* df["Close"], ordered by Date; the Date of row i is i
    pcV,          \* position of the value-mode script
    pcF,          \* position of the formula-mode script
    returns,      \* value mode: the `returns` frame, rows [Date, Return]
    stats,        \* value mode: the computed statistics
    outliers_df,  \* value mode: the outlier rows
    freq_df,      \* value mode: the frequency table rows
    ws_ret,       \* formula mode: sheet Returns, rows 2.. (evaluated)
    ws_stats,     \* formula mode: sheet Descriptive Stats, rows 2..20 (evaluated)
    ws_out,       \* formula mode: sheet Outliers, the non-blank rows 2..201
    ws_freq       \* formula mode: sheet Frequency, the non-blank rows 2..61

vars == <<prices, pcV, pcF, returns, stats, outliers_df, freq_df,
          ws_ret, ws_stats, ws_out, ws_freq>>

(***************************************************************************)
(* Bounds of the model and the fixed-point unit.                           *)
(***************************************************************************)
MaxPrices == 3
MaxReturns == 4
Unit == 200

PriceSet == {5, 40, 50}
ReturnSet == {-190, 0, 3, 20, 1000}
\* the two example series of the specification, in units of 1/Unit
ExtremeSeries == <<2, 4, -2, 3, 1000>>
ConstantPrices == <<50, 50, 50>>

RECURSIVE SeqsUpTo(_, _)
SeqsUpTo(S, k) ==
    IF k = 0 THEN {<<>>}
    ELSE LET prev == SeqsUpTo(S, k - 1)
         IN prev \cup {Append(s, x) : s \in {t \in prev : Len(t) = k - 1}, x \in S}

(***************************************************************************)
(* Exact rational values and the missing values of the two substrates.     *)
(***************************************************************************)
Abs(a) == IF a < 0 THEN -a ELSE a

RECURSIVE GCD(_, _)
GCD(a, b) == IF b = 0 THEN a ELSE GCD(b, a % b)

Num(n, d) ==
    LET g == GCD(Abs(n), d)
    IN [kind |-> "num", num |-> n \div g, den |-> d \div g]
NaN == [kind |-> "nan", num |-> 0, den |-> 1]
XlError(code) == [kind |-> code, num |-> 0, den |-> 1]
IsNum(a) == a.kind = "num"
Missing(a) == a.kind \notin {"num", "sqrt"}

RAdd(a, b) == Num(a.num * b.den + b.num * a.den, a.den * b.den)
RSub(a, b) == Num(a.num * b.den - b.num * a.den, a.den * b.den)
RScale(a, p, q) == Num(a.num * p, a.den * q)
RLess(a, b) == a.num * b.den < b.num * a.den
RLeq(a, b) == a.num * b.den <= b.num * a.den
\* the square root of a rational is kept symbolic
Sqrt(a) == IF IsNum(a) THEN [kind |-> "sqrt", num |-> a.num, den |-> a.den] ELSE a

RECURSIVE SumTo(_, _)
SumTo(s, k) == IF k = 0 THEN 0 ELSE s[k] + SumTo(s, k - 1)
SumSeq(s) == SumTo(s, Len(s))

RECURSIVE Insert(_, _)
Insert(s, x) ==
    IF s = <<>> THEN <<x>>
    ELSE IF x <= s[1] THEN <<x>> \o s
    ELSE <<s[1]>> \o Insert(Tail(s), x)

RECURSIVE InsertDesc(_, _)
InsertDesc(s, x) ==
    IF s = <<>> THEN <<x>>
    ELSE IF x >= s[1] THEN <<x>> \o s
    ELSE <<s[1]>> \o InsertDesc(Tail(s), x)

RECURSIVE SortDesc(_)
SortDesc(s) == IF s = <<>> THEN <<>> ELSE InsertDesc(SortDesc(Tail(s)), s[1])

\* the sorted copy of the data every order statistic is read from
RECURSIVE SortAsc(_)
SortAsc(s) == IF s = <<>> THEN <<>> ELSE Insert(SortAsc(Tail(s)), s[1])

SeqMin(s) == CHOOSE x \in {s[i] : i \in DOMAIN s} : \A j \in DOMAIN s : x <= s[j]
SeqMax(s) == CHOOSE x \in {s[i] : i \in DOMAIN s} : \A j \in DOMAIN s : x >= s[j]
Occurrences(s, x) == Cardinality({i \in DOMAIN s : s[i] = x})

(***************************************************************************)
(* Return series, value mode (Version2 lines 13-21).                       *)
(***************************************************************************)
\* Close_t / Close_{t-1} - 1 in units of 1/Unit
SimpleReturn(cur, prev) == (Unit * cur) \div prev - Unit

\* Series.pct_change(): same length as the input, NaN in the first row
pct_change(close) ==
    [i \in 1..Len(close) |->
        IF i = 1 THEN NaN ELSE Num(SimpleReturn(close[i], close[i - 1]), 1)]

\* df.loc[1:, ["Date", "Return"]].reset_index(drop=True): drops row 0
DropFirstRowKeepAll(close) ==
    LET col == pct_change(close)
    IN [i \in 1..Len(close) |-> [Date |-> i - 1, Return |-> col[i]]]

BuildReturns(close) ==
    LET col == pct_change(close)
    IN [k \in 1..(IF Len(close) = 0 THEN 0 ELSE Len(close) - 1) |->
            [Date |-> k, Return |-> col[k + 1]]]

\* returns["Return"].dropna().to_numpy()
RECURSIVE dropna(_)
dropna(rows) ==
    IF rows = <<>> THEN <<>>
    ELSE IF IsNum(rows[1].Return) THEN <<rows[1].Return.num>> \o dropna(Tail(rows))
    ELSE dropna(Tail(rows))

(***************************************************************************)
(* Return series, formula mode (formula script lines 41-57).               *)
(***************************************************************************)
\* sheet Data as written by df.to_excel(index=False): header in row 1,
\* df row j (0-based) in Excel row j + 2; column E is Close
DataE(close, row) ==
    IF row = 1 THEN [kind |-> "text", num |-> 0, den |-> 1]
    ELSE IF row - 1 \in DOMAIN close THEN Num(close[row - 1], 1)
    ELSE [kind |-> "blank", num |-> 0, den |-> 1]

\* =(Data!E{a})/(Data!E{b})-1
EvalReturnFormula(close, a, b) ==
    LET x == DataE(close, a)
        y == DataE(close, b)
    IN IF x.kind = "text" \/ y.kind = "text" THEN XlError("#VALUE!")
       ELSE IF y.kind = "blank" \/ y.num = 0 THEN XlError("#DIV/0!")
       ELSE Num(SimpleReturn(x.num, y.num), 1)

\* references into Descriptive Stats written by the IsOutlier formula
LOWER_REF == 17
UPPER_REF == 18

ReturnsRowOffByOne(close, i) ==
    LET data_row_excel == i
    IN [Date |-> i,
        Return |-> EvalReturnFormula(close, data_row_excel + 1, data_row_excel),
        lo_ref |-> LOWER_REF, hi_ref |-> UPPER_REF]

\* the body of the loop `for i in range(1, n_rows)`; the row goes to
\* 0-based row ret_row = i, Excel row i + 1
ReturnsRow(close, i) ==
    LET data_row_excel == i + 1
    IN [Date |-> i,
        Return |-> EvalReturnFormula(close, data_row_excel + 1, data_row_excel),
        lo_ref |-> LOWER_REF, hi_ref |-> UPPER_REF]

WriteReturnsSheet(close) ==
    [k \in 1..(IF Len(close) = 0 THEN 0 ELSE Len(close) - 1) |-> ReturnsRow(close, k)]

\* Returns!$B$2:INDEX(Returns!$B:$B, MATCH(1E+99, Returns!$B:$B)):
\* the numeric cells of column B (an error when there is none)
RECURSIVE RET_RANGE(_)
RET_RANGE(rows) ==
    IF rows = <<>> THEN <<>>
    ELSE IF IsNum(rows[1].Return) THEN <<rows[1].Return.num>> \o RET_RANGE(Tail(rows))
    ELSE RET_RANGE(Tail(rows))

(***************************************************************************)
(* Descriptive statistics, value mode (Version2 lines 20-42).              *)
(***************************************************************************)
np_mean(r) == Num(SumSeq(r), Len(r))

np_median(r) ==
    LET s == SortAsc(r)
        n == Len(r)
    IN IF n % 2 = 1 THEN Num(s[(n + 1) \div 2], 1)
       ELSE Num(s[n \div 2] + s[n \div 2 + 1], 2)

\* pd.Series(r).mode(): the most frequent values in ascending order
pd_mode(r) ==
    LET top == {x \in {r[i] : i \in DOMAIN r} :
                    \A j \in DOMAIN r : Occurrences(r, x) >= Occurrences(r, r[j])}
    IN [i \in 1..Cardinality(top) |->
            CHOOSE x \in top : Cardinality({y \in top : y < x}) = i - 1]

\* np.var(r, ddof): sum((x - mean)^2) / (n - ddof)
np_var(r, ddof) ==
    LET n == Len(r)
        S == SumSeq(r)
    IN Num(SumSeq([i \in 1..n |-> (n * r[i] - S) * (n * r[i] - S)]), n * n * (n - ddof))

\* np.percentile(r, q), method "linear": virtual index q/100 * (n - 1)
np_percentile(r, q) ==
    LET s == SortAsc(r)
        n == Len(r)
        idx == q * (n - 1)
        lo == idx \div 100
        g == idx % 100
    IN IF g = 0 THEN Num(s[lo + 1], 1)
       ELSE Num(100 * s[lo + 1] + g * (s[lo + 2] - s[lo + 1]), 100)

ComputeStats(rows) ==
    LET r == dropna(rows)
        n == Len(r)
        mode_vals == IF n = 0 THEN <<>> ELSE pd_mode(r)
        q1 == IF n # 0 THEN np_percentile(r, 25) ELSE NaN
        q3 == IF n # 0 THEN np_percentile(r, 75) ELSE NaN
        iqr == IF n # 0 THEN RSub(q3, q1) ELSE NaN
        var_s == IF n > 1 THEN np_var(r, 1) ELSE NaN
    IN [n |-> n,
        mean |-> IF n # 0 THEN np_mean(r) ELSE NaN,
        median |-> IF n # 0 THEN np_median(r) ELSE NaN,
        mode |-> IF Len(mode_vals) > 0 THEN Num(mode_vals[1], 1) ELSE NaN,
        r_min |-> IF n # 0 THEN Num(SeqMin(r), 1) ELSE NaN,
        r_max |-> IF n # 0 THEN Num(SeqMax(r), 1) ELSE NaN,
        r_range |-> IF n # 0 THEN Num(SeqMax(r) - SeqMin(r), 1) ELSE NaN,
        var_s |-> var_s,
        std_s |-> Sqrt(var_s),
        p20 |-> IF n # 0 THEN np_percentile(r, 20) ELSE NaN,
        p60 |-> IF n # 0 THEN np_percentile(r, 60) ELSE NaN,
        p90 |-> IF n # 0 THEN np_percentile(r, 90) ELSE NaN,
        q1 |-> q1,
        q3 |-> q3,
        iqr |-> iqr,
        lower_bound |-> IF n # 0 THEN RSub(q1, RScale(iqr, 3, 2)) ELSE NaN,
        upper_bound |-> IF n # 0 THEN RAdd(q3, RScale(iqr, 3, 2)) ELSE NaN]

(***************************************************************************)
(* Outliers, value mode (Version2 lines 44-48).                            *)
(***************************************************************************)
\* a comparison with NaN on either side is False
MaskUpperOnly(x, lower_bound, upper_bound) ==
    IsNum(x) /\ IsNum(upper_bound) /\ RLess(upper_bound, x)

\* (returns["Return"] < lower_bound) | (returns["Return"] > upper_bound)
mask_out(x, lower_bound, upper_bound) ==
    \/ IsNum(x) /\ IsNum(lower_bound) /\ RLess(x, lower_bound)
    \/ IsNum(x) /\ IsNum(upper_bound) /\ RLess(upper_bound, x)

RECURSIVE SelectOutliers(_, _, _)
SelectOutliers(rows, lower_bound, upper_bound) ==
    IF rows = <<>> THEN <<>>
    ELSE (IF mask_out(rows[1].Return, lower_bound, upper_bound)
          THEN <<rows[1]>> ELSE <<>>)
         \o SelectOutliers(Tail(rows), lower_bound, upper_bound)

DetectOutliers(rows, st) ==
    IF st.n # 0 THEN SelectOutliers(rows, st.lower_bound, st.upper_bound) ELSE <<>>

(***************************************************************************)
(* Frequency table, value mode (Version2 lines 50-68).                     *)
(***************************************************************************)
\* bin_width = 0.10, in units of 1/Unit
bin_width == Unit \div 10
\* the factor 1.0001 of `upper + bin_width * 1.0001`, as SLACK_NUM / SLACK_DEN
SLACK_NUM == 10001
SLACK_DEN == 10000

np_floor_div(x, w) == x \div w
np_ceil_div(x, w) == -((-x) \div w)

\* len(np.arange(start, start + span_num / SLACK_DEN, step)) = ceil((stop - start) / step)
arange_len(span_num, step) == np_ceil_div(span_num, SLACK_DEN * step)

\* np.arange(lower, upper + bin_width * 1.0001, bin_width)
BinEdges(lower, upper) ==
    LET len == arange_len(SLACK_DEN * (upper - lower) + SLACK_NUM * bin_width, bin_width)
    IN [j \in 1..len |-> lower + (j - 1) * bin_width]

\* np.histogram(r, bins=edges): half-open bins, the last one closed
np_histogram(r, edges) ==
    LET nb == Len(edges) - 1
    IN [j \in 1..nb |->
          Cardinality({i \in DOMAIN r :
              /\ edges[j] <= r[i]
              /\ IF j = nb THEN r[i] <= edges[j + 1] ELSE r[i] < edges[j + 1]})]

ComputeFrequency(rows) ==
    LET r == dropna(rows)
        n == Len(r)
        lower == np_floor_div(SeqMin(r), bin_width) * bin_width
        upper0 == np_ceil_div(SeqMax(r), bin_width) * bin_width
        upper == IF upper0 = lower THEN lower + bin_width ELSE upper0
        edges == BinEdges(lower, upper)
        counts == np_histogram(r, edges)
        total == SumSeq(counts)
    IN IF n = 0 THEN <<>>
       ELSE [j \in 1..Len(counts) |->
               [lower |-> edges[j], upper |-> edges[j + 1],
                Frequency |-> counts[j],
                Relative |-> IF total > 0 THEN Num(counts[j], total) ELSE Num(0, 1)]]

(***************************************************************************)
(* Descriptive Stats sheet, formula mode (formula script lines 64-104).    *)
(* Each function is given the numeric cells of RET_RANGE; an empty list    *)
(* stands for the #N/A that MATCH yields when column B holds no number.    *)
(***************************************************************************)
XL_COUNT(rng) == IF rng = <<>> THEN XlError("#N/A") ELSE Num(Len(rng), 1)
XL_AVERAGE(rng) == IF rng = <<>> THEN XlError("#N/A") ELSE Num(SumSeq(rng), Len(rng))
XL_MIN(rng) == IF rng = <<>> THEN XlError("#N/A") ELSE Num(SeqMin(rng), 1)
XL_MAX(rng) == IF rng = <<>> THEN XlError("#N/A") ELSE Num(SeqMax(rng), 1)

XL_MEDIAN(rng) ==
    LET s == SortAsc(rng)
        n == Len(rng)
        mid == (n + 1) \div 2
    IN IF n = 0 THEN XlError("#N/A")
       ELSE IF n % 2 = 1 THEN Num(s[mid], 1)
       ELSE Num(s[mid] + s[mid + 1], 2)

\* MODE.SNGL: #N/A when no value repeats; among equally frequent values the
\* one met first in the range
MODE_SNGL(rng) ==
    LET best == {i \in DOMAIN rng :
                    \A j \in DOMAIN rng : Occurrences(rng, rng[i]) >= Occurrences(rng, rng[j])}
        first == CHOOSE i \in best : \A j \in best : i <= j
    IN IF rng = <<>> THEN XlError("#N/A")
       ELSE IF \A i \in DOMAIN rng : Occurrences(rng, rng[i]) = 1 THEN XlError("#N/A")
       ELSE Num(rng[first], 1)

\* VAR.S: sum((x - mean)^2) / (n - 1); #DIV/0! for fewer than two numbers
VAR_S(rng) ==
    LET n == Len(rng)
        S == SumSeq(rng)
    IN IF n = 0 THEN XlError("#N/A")
       ELSE IF n < 2 THEN XlError("#DIV/0!")
       ELSE Num(SumSeq([i \in 1..n |-> (n * rng[i] - S) * (n * rng[i] - S)]),
                n * n * (n - 1))
STDEV_S(rng) == Sqrt(VAR_S(rng))

\* PERCENTILE.INC(rng, k/100): 1-based rank k/100 * (n - 1) + 1, interpolated
PERCENTILE_INC(rng, k) ==
    LET s == SortAsc(rng)
        n == Len(rng)
        whole == (k * (n - 1)) \div 100 + 1
        frac == (k * (n - 1)) % 100
    IN IF n = 0 THEN XlError("#N/A")
       ELSE IF frac = 0 THEN Num(s[whole], 1)
       ELSE Num(100 * s[whole] + frac * (s[whole + 1] - s[whole]), 100)
QUARTILE_INC(rng, quart) == PERCENTILE_INC(rng, 25 * quart)

XL_SUB(a, b) == IF ~IsNum(a) THEN a ELSE IF ~IsNum(b) THEN b ELSE RSub(a, b)
XL_ADD(a, b) == IF ~IsNum(a) THEN a ELSE IF ~IsNum(b) THEN b ELSE RAdd(a, b)
XL_TIMES_1_5(a) == IF ~IsNum(a) THEN a ELSE RScale(a, 3, 2)

\* COUNTIFS(rng, "<" & crit) and COUNTIFS(rng, ">" & crit)
COUNTIFS_LT(rng, crit) == Cardinality({i \in DOMAIN rng : RLess(Num(rng[i], 1), crit)})
COUNTIFS_GT(rng, crit) == Cardinality({i \in DOMAIN rng : RLess(crit, Num(rng[i], 1))})

\* the rows of stats_rows before the last one: label and evaluated formula
stats_rows(rng) ==
    LET Q1 == QUARTILE_INC(rng, 1)
        Q3 == QUARTILE_INC(rng, 3)
    IN << [label |-> "Count (months)",    value |-> XL_COUNT(rng)],
          [label |-> "Mean (monthly)",    value |-> XL_AVERAGE(rng)],
          [label |-> "Median",            value |-> XL_MEDIAN(rng)],
          [label |-> "Mode",              value |-> MODE_SNGL(rng)],
          [label |-> "Range",             value |-> XL_SUB(XL_MAX(rng), XL_MIN(rng))],
          [label |-> "Variance (sample)", value |-> VAR_S(rng)],
          [label |-> "Std Dev (sample)",  value |-> STDEV_S(rng)],
          [label |-> "20th percentile",   value |-> PERCENTILE_INC(rng, 20)],
          [label |-> "60th percentile",   value |-> PERCENTILE_INC(rng, 60)],
          [label |-> "90th percentile",   value |-> PERCENTILE_INC(rng, 90)],
          [label |-> "Min",               value |-> XL_MIN(rng)],
          [label |-> "Q1",                value |-> Q1],
          [label |-> "Median (Q2)",       value |-> XL_MEDIAN(rng)],
          [label |-> "Q3",                value |-> Q3],
          [label |-> "Max",               value |-> XL_MAX(rng)],
          [label |-> "IQR (Q3 - Q1)",     value |-> XL_SUB(Q3, Q1)],
          [label |-> "Lower bound (IQR)", value |-> XL_SUB(Q1, XL_TIMES_1_5(XL_SUB(Q3, Q1)))],
          [label |-> "Upper bound (IQR)", value |-> XL_ADD(Q3, XL_TIMES_1_5(XL_SUB(Q3, Q1)))] >>

\* `for i, ... in enumerate(stats_rows, start=1): ws_stats.write(i, ...)`:
\* entry k (1-based) of the list lands in 0-based row k, Excel row k + 1
StatsRowOf(k) == k + 1

\* cell B{row} of a Descriptive Stats sheet holding the entries `sheet`
StatsCellB(sheet, row) ==
    IF row = 1 THEN [kind |-> "text", num |-> 0, den |-> 1]
    ELSE IF \E k \in DOMAIN sheet : StatsRowOf(k) = row
         THEN sheet[CHOOSE k \in DOMAIN sheet : StatsRowOf(k) = row].value
    ELSE [kind |-> "blank", num |-> 0, den |-> 1]

\* references of the "Outliers (count)" formula, relative to its own sheet
COUNT_LOWER_REF == 17
COUNT_UPPER_REF == 18

\* =COUNTIFS(RET_RANGE,"<"&B17)+COUNTIFS(RET_RANGE,">"&B18)
OutlierCountFormula(rng, sheet) ==
    LET lo == StatsCellB(sheet, COUNT_LOWER_REF)
        hi == StatsCellB(sheet, COUNT_UPPER_REF)
    IN IF rng = <<>> THEN XlError("#N/A")
       ELSE IF ~IsNum(lo) THEN lo
       ELSE IF ~IsNum(hi) THEN hi
       ELSE Num(COUNTIFS_LT(rng, lo) + COUNTIFS_GT(rng, hi), 1)

WriteStatsSheet(rows) ==
    LET rng == RET_RANGE(rows)
        head == stats_rows(rng)
    IN Append(head, [label |-> "Outliers (count)", value |-> OutlierCountFormula(rng, head)])

(***************************************************************************)
(* Outliers sheet, formula mode (formula script lines 49-56, 109-122).     *)
(***************************************************************************)
\* =OR(B{row}<'Descriptive Stats'!$B${lo_ref}, B{row}>'Descriptive Stats'!$B${hi_ref})
IsOutlier(row, sheet) ==
    LET lo == StatsCellB(sheet, row.lo_ref)
        hi == StatsCellB(sheet, row.hi_ref)
    IN /\ IsNum(row.Return) /\ IsNum(lo) /\ IsNum(hi)
       /\ (RLess(row.Return, lo) \/ RLess(hi, row.Return))

\* column D of Returns: =IF(C{row}, ROW(), ""), the numbers in it
OutlierRow(ret_sheet, sheet) ==
    {k + 1 : k \in {j \in DOMAIN ret_sheet : IsOutlier(ret_sheet[j], sheet)}}

\* SMALL(Returns!$D:$D, k)
SMALL(S, k) == CHOOSE x \in S : Cardinality({y \in S : y < x}) = k - 1

\* number of pre-filled rows of the Outliers sheet: `for k in range(1, 201)`
OUT_ROWS == 200

\* rows 2..201: =IFERROR(INDEX(Returns!A:A, SMALL(Returns!$D:$D, k)), ""), same for B
WriteOutliersSheet(ret_sheet, sheet) ==
    LET D == OutlierRow(ret_sheet, sheet)
        filled == IF Cardinality(D) < OUT_ROWS THEN Cardinality(D) ELSE OUT_ROWS
    IN [k \in 1..filled |->
          LET xrow == SMALL(D, k)
          IN [Date |-> ret_sheet[xrow - 1].Date, Return |-> ret_sheet[xrow - 1].Return]]

(***************************************************************************)
(* Frequency sheet, formula mode (formula script lines 124-162).           *)
(***************************************************************************)
\* G1 = 0.10
G1 == Unit \div 10
\* number of pre-filled bin rows
max_bins == 60

\* G2: =INT(MIN(RET_RANGE)/$G$1)*$G$1
G2(rng) == (SeqMin(rng) \div G1) * G1
\* G3: =CEILING(MAX(RET_RANGE),$G$1)
G3(rng) == -(((-SeqMax(rng)) \div G1) * G1)

\* column A: A2 = G$2; A{row} = IF(OR(A{row-1}="", A{row-1}>$G$3-$G$1), "", A{row-1}+$G$1)
RECURSIVE ClassLower(_, _)
ClassLower(acc, g3) ==
    IF Len(acc) = max_bins THEN acc
    ELSE IF acc[Len(acc)] > g3 - G1 THEN acc
    ELSE ClassLower(Append(acc, acc[Len(acc)] + G1), g3)

\* column C: =COUNTIFS(Returns!$B:$B,">="&A{row}, Returns!$B:$B,"<"&A{row}+$G$1)
FrequencyCell(rng, a) == Cardinality({i \in DOMAIN rng : a <= rng[i] /\ rng[i] < a + G1})

WriteFrequencySheet(ret_sheet) ==
    LET rng == RET_RANGE(ret_sheet)
        A == ClassLower(<<G2(rng)>>, G3(rng))
        C == [j \in DOMAIN A |-> FrequencyCell(rng, A[j])]
        total == SumSeq(C)
    IN IF rng = <<>>
       THEN [j \in 1..max_bins |->
               [lower |-> XlError("#N/A"), Frequency |-> XlError("#N/A"),
                Relative |-> XlError("#N/A")]]
       ELSE [j \in DOMAIN A |->
               [lower |-> Num(A[j], 1), Frequency |-> Num(C[j], 1),
                Relative |-> IF total = 0 THEN XlError("#DIV/0!") ELSE Num(C[j], total)]]

(***************************************************************************)
(* The two scripts as state machines.                                      *)
(***************************************************************************)
NotYet == <<>>

Init ==
    /\ prices \in SeqsUpTo(PriceSet, MaxPrices)
    /\ pcV = "returns"
    /\ pcF = "returns"
    /\ returns = NotYet
    /\ stats = NotYet
    /\ outliers_df = NotYet
    /\ freq_df = NotYet
    /\ ws_ret = NotYet
    /\ ws_stats = NotYet
    /\ ws_out = NotYet
    /\ ws_freq = NotYet

\* Version2 lines 13-18
V_Returns ==
    /\ pcV = "returns"
    /\ returns' = BuildReturns(prices)
    /\ pcV' = "stats"
    /\ UNCHANGED <<prices, pcF, stats, outliers_df, freq_df, ws_ret, ws_stats, ws_out, ws_freq>>

\* Version2 lines 20-42
V_Stats ==
    /\ pcV = "stats"
    /\ stats' = ComputeStats(returns)
    /\ pcV' = "outliers"
    /\ UNCHANGED <<prices, pcF, returns, outliers_df, freq_df, ws_ret, ws_stats, ws_out, ws_freq>>

\* Version2 lines 44-48
V_Outliers ==
    /\ pcV = "outliers"
    /\ outliers_df' = DetectOutliers(returns, stats)
    /\ pcV' = "frequency"
    /\ UNCHANGED <<prices, pcF, returns, stats, freq_df, ws_ret, ws_stats, ws_out, ws_freq>>

\* Version2 lines 50-68
V_Frequency ==
    /\ pcV = "frequency"
    /\ freq_df' = ComputeFrequency(returns)
    /\ pcV' = "done"
    /\ UNCHANGED <<prices, pcF, returns, stats, outliers_df, ws_ret, ws_stats, ws_out, ws_freq>>

\* formula script lines 34-62
F_Returns ==
    /\ pcF = "returns"
    /\ ws_ret' = WriteReturnsSheet(prices)
    /\ pcF' = "stats"
    /\ UNCHANGED <<prices, pcV, returns, stats, outliers_df, freq_df, ws_stats, ws_out, ws_freq>>

\* formula script lines 64-107
F_Stats ==
    /\ pcF = "stats"
    /\ ws_stats' = WriteStatsSheet(ws_ret)
    /\ pcF' = "outliers"
    /\ UNCHANGED <<prices, pcV, returns, stats, outliers_df, freq_df, ws_ret, ws_out, ws_freq>>

\* formula script lines 109-122
F_Outliers ==
    /\ pcF = "outliers"
    /\ ws_out' = WriteOutliersSheet(ws_ret, ws_stats)
    /\ pcF' = "frequency"
    /\ UNCHANGED <<prices, pcV, returns, stats, outliers_df, freq_df, ws_ret, ws_stats, ws_freq>>

\* formula script lines 124-169
F_Frequency ==
    /\ pcF = "frequency"
    /\ ws_freq' = WriteFrequencySheet(ws_ret)
    /\ pcF' = "done"
    /\ UNCHANGED <<prices, pcV, returns, stats, outliers_df, freq_df, ws_ret, ws_stats, ws_out>>

Next ==
    \/ V_Returns
    \/ V_Stats
    \/ V_Outliers
    \/ V_Frequency
    \/ F_Returns
    \/ F_Stats
    \/ F_Outliers
    \/ F_Frequency

Spec == Init /\ [][Next]_vars

(***************************************************************************)
(* The statistics, outlier and frequency steps on a given return series:   *)
(* the state both scripts are in once the return series is built, for      *)
(* return series that are multiples of 1/Unit.  The Close column is not    *)
(* read after that point and is left empty here.                           *)
(***************************************************************************)
SeriesInputs == SeqsUpTo(ReturnSet, MaxReturns) \cup {ExtremeSeries}

\* the `returns` frame holding the series r
FrameOf(r) == [k \in DOMAIN r |-> [Date |-> k, Return |-> Num(r[k], 1)]]
\* the Returns sheet holding the series r
SheetOf(r) ==
    [k \in DOMAIN r |->
        [Date |-> k, Return |-> Num(r[k], 1), lo_ref |-> LOWER_REF, hi_ref |-> UPPER_REF]]

SeriesInit ==
    /\ prices = <<>>
    /\ pcV = "stats"
    /\ pcF = "stats"
    /\ \E r \in SeriesInputs : returns = FrameOf(r) /\ ws_ret = SheetOf(r)
    /\ stats = NotYet
    /\ outliers_df = NotYet
    /\ freq_df = NotYet
    /\ ws_stats = NotYet
    /\ ws_out = NotYet
    /\ ws_freq = NotYet

SeriesNext ==
    \/ V_Stats
    \/ V_Outliers
    \/ V_Frequency
    \/ F_Stats
    \/ F_Outliers
    \/ F_Frequency

SpecSeries == SeriesInit /\ [][SeriesNext]_vars

(***************************************************************************)
(* Helpers of the properties.                                              *)
(***************************************************************************)
ValueReturnsBuilt == pcV # "returns"
SheetReturnsBuilt == pcF # "returns"
ValueStatsDone == pcV \in {"outliers", "frequency", "done"}
SheetStatsDone == pcF \in {"outliers", "frequency", "done"}
ValueOutliersDone == pcV \in {"frequency", "done"}
SheetOutliersDone == pcF \in {"frequency", "done"}

\* the Return column of a list of rows, in units of 1/Unit
ReturnValues(rows) == [k \in DOMAIN rows |-> rows[k].Return.num]

\* the value and the Excel row of the Descriptive Stats entry with a given label
StatByLabel(sheet, label) == sheet[CHOOSE k \in DOMAIN sheet : sheet[k].label = label].value
RowOfLabel(sheet, label) == StatsRowOf(CHOOSE k \in DOMAIN sheet : sheet[k].label = label)

\* the rows outside [lb, ub], in their original order
RECURSIVE OutsideBounds(_, _, _)
OutsideBounds(rows, lb, ub) ==
    IF rows = <<>> THEN <<>>
    ELSE (IF RLess(rows[1].Return, lb) \/ RLess(ub, rows[1].Return)
          THEN <<[Date |-> rows[1].Date, Return |-> rows[1].Return]>> ELSE <<>>)
         \o OutsideBounds(Tail(rows), lb, ub)

\* the sum of the fractions s[1..k], all over the same denominator `total`
RECURSIVE NumeratorSum(_, _, _)
NumeratorSum(s, k, total) ==
    IF k = 0 THEN 0 ELSE (s[k].num * total) \div s[k].den + NumeratorSum(s, k - 1, total)
RSum(s, total) ==
    IF \A k \in DOMAIN s : IsNum(s[k]) /\ total % s[k].den = 0
    THEN Num(NumeratorSum(s, Len(s), total), total)
    ELSE XlError("#VALUE!")

AllEqual(r) == \A i, j \in DOMAIN r : r[i] = r[j]

(***************************************************************************)
(* C1: for a price series of length m >= 2 the return series has m-1       *)
(* entries and entry i carries timestamp i and price[i]/price[i-1] - 1,    *)
(* in value mode (pct_change, first row dropped) and in formula mode       *)
(* (Data!E{i+2} / Data!E{i+1} - 1 with the Data header in row 1).          *)
(***************************************************************************)
C1_ReturnSeriesContract ==
    Len(prices) >= 2 =>
        /\ ValueReturnsBuilt =>
            /\ Len(returns) = Len(prices) - 1
            /\ \A i \in 1..(Len(prices) - 1) :
                /\ returns[i].Date = i
                /\ IsNum(returns[i].Return)
                /\ returns[i].Return.den = 1
                /\ (returns[i].Return.num + Unit) * prices[i] = Unit * prices[i + 1]
        /\ SheetReturnsBuilt =>
            /\ Len(ws_ret) = Len(prices) - 1
            /\ \A i \in 1..(Len(prices) - 1) :
                /\ ws_ret[i].Date = i
                /\ IsNum(ws_ret[i].Return)
                /\ ws_ret[i].Return.den = 1
                /\ (ws_ret[i].Return.num + Unit) * prices[i] = Unit * prices[i + 1]

C1_Witness ==
    /\ Len(prices) = 3
    /\ ValueReturnsBuilt /\ SheetReturnsBuilt
    /\ prices[1] # prices[2] /\ prices[2] # prices[3]
    /\ returns[1].Return # returns[2].Return
    /\ ws_ret[2].Return = returns[2].Return

(***************************************************************************)
(* C2: in formula mode the IsOutlier flag and the outlier count compare    *)
(* each return against the cells of 'Lower bound (IQR)' and 'Upper bound   *)
(* (IQR)': the referenced rows are the rows of those two statistics, and   *)
(* a return is flagged iff return < LowerBound or return > UpperBound.     *)
(***************************************************************************)
C2_FlagReadsBoundCells ==
    SheetStatsDone =>
        /\ COUNT_LOWER_REF = RowOfLabel(ws_stats, "Lower bound (IQR)")
        /\ COUNT_UPPER_REF = RowOfLabel(ws_stats, "Upper bound (IQR)")
        /\ \A k \in DOMAIN ws_ret :
            /\ ws_ret[k].lo_ref = RowOfLabel(ws_stats, "Lower bound (IQR)")
            /\ ws_ret[k].hi_ref = RowOfLabel(ws_stats, "Upper bound (IQR)")
            /\ IsOutlier(ws_ret[k], ws_stats) <=>
                  \/ RLess(ws_ret[k].Return, StatByLabel(ws_stats, "Lower bound (IQR)"))
                  \/ RLess(StatByLabel(ws_stats, "Upper bound (IQR)"), ws_ret[k].Return)

(***************************************************************************)
(* C3: outlier detection returns exactly the return points with            *)
(* return < LowerBound or return > UpperBound, once each and in            *)
(* chronological order, in value mode and in formula mode (the k-th        *)
(* smallest flagged row, k = 1..200).                                      *)
(***************************************************************************)
C3_OutliersAreTheRowsOutsideBounds ==
    /\ (ValueOutliersDone /\ stats.n > 0) =>
          outliers_df = OutsideBounds(returns, stats.lower_bound, stats.upper_bound)
    /\ (SheetOutliersDone /\ Len(ws_ret) > 0) =>
          ws_out = OutsideBounds(ws_ret, StatByLabel(ws_stats, "Lower bound (IQR)"),
                                 StatByLabel(ws_stats, "Upper bound (IQR)"))

(***************************************************************************)
(* C4 as stated: for the return series [0.01, 0.02, -0.01, 0.015, 5.0]     *)
(* the outlier detector flags 5.0 and no other value.                      *)
(***************************************************************************)
C4_OnlyExtremeFlagged ==
    (returns = FrameOf(ExtremeSeries) /\ ValueOutliersDone) =>
        ReturnValues(outliers_df) = <<1000>>

(***************************************************************************)
(* C4 amended: for that series Q1 = 0.01, Q3 = 0.02, LowerBound = -0.005   *)
(* and UpperBound = 0.035, and the detector flags -0.01 and 5.0 (in that   *)
(* order) and no other value.                                              *)
(***************************************************************************)
C4_ExtremeAndLowFlagged ==
    (returns = FrameOf(ExtremeSeries) /\ ValueOutliersDone) =>
        /\ stats.q1 = Num(2, 1) /\ stats.q3 = Num(4, 1)
        /\ stats.lower_bound = Num(-1, 1) /\ stats.upper_bound = Num(7, 1)
        /\ ReturnValues(outliers_df) = <<-2, 1000>>

C4_Witness ==
    /\ returns = FrameOf(ExtremeSeries)
    /\ pcV = "done"
    /\ Len(outliers_df) = 2

(***************************************************************************)
(* C5: for every non-empty return series, in value mode and in formula     *)
(* mode, the bin counts sum to n and the relative frequencies sum to 1     *)
(* (formula mode: over the 60 pre-filled bin rows).                        *)
(***************************************************************************)
C5_BinCountsSumToN ==
    /\ (pcV = "done" /\ Len(returns) > 0) =>
          /\ SumSeq([j \in DOMAIN freq_df |-> freq_df[j].Frequency]) = Len(returns)
          /\ RSum([j \in DOMAIN freq_df |-> freq_df[j].Relative], Len(returns)) = Num(1, 1)
    /\ (pcF = "done" /\ Len(ws_ret) > 0) =>
          /\ RSum([j \in DOMAIN ws_freq |-> ws_freq[j].Frequency], 1) = Num(Len(ws_ret), 1)
          /\ LET counted == RSum([j \in DOMAIN ws_freq |-> ws_freq[j].Frequency], 1).num
             IN RSum([j \in DOMAIN ws_freq |-> ws_freq[j].Relative], counted) = Num(1, 1)

(***************************************************************************)
(* C6: for the constant price series [50, 50, 50] (returns [0, 0]) the     *)
(* frequency binner reports exactly one bin, which contains both           *)
(* observations and has relative frequency 1.0.                            *)
(***************************************************************************)
C6_ConstantSeriesOneBin ==
    prices = ConstantPrices =>
        /\ pcV = "done" =>
            /\ ReturnValues(returns) = <<0, 0>>
            /\ Len(freq_df) = 1
            /\ freq_df[1].Frequency = 2
            /\ freq_df[1].Relative = Num(1, 1)
        /\ pcF = "done" =>
            /\ ReturnValues(ws_ret) = <<0, 0>>
            /\ Len(ws_freq) = 1
            /\ ws_freq[1].Frequency = Num(2, 1)
            /\ ws_freq[1].Relative = Num(1, 1)

(***************************************************************************)
(* C7: for any non-empty return series every statistic has the same value  *)
(* in value mode as the formula-mode cell evaluates to (a statistic        *)
(* missing on one side must be missing on the other), the mode included.   *)
(***************************************************************************)
SameValue(v, cell) == IF Missing(v) \/ Missing(cell) THEN Missing(v) /\ Missing(cell) ELSE v = cell

C7_ModesAgreeOnEveryStatistic ==
    (ValueStatsDone /\ SheetStatsDone /\ stats.n > 0) =>
        /\ SameValue(Num(stats.n, 1), StatByLabel(ws_stats, "Count (months)"))
        /\ SameValue(stats.mean, StatByLabel(ws_stats, "Mean (monthly)"))
        /\ SameValue(stats.median, StatByLabel(ws_stats, "Median"))
        /\ SameValue(stats.mode, StatByLabel(ws_stats, "Mode"))
        /\ SameValue(stats.r_range, StatByLabel(ws_stats, "Range"))
        /\ SameValue(stats.var_s, StatByLabel(ws_stats, "Variance (sample)"))
        /\ SameValue(stats.std_s, StatByLabel(ws_stats, "Std Dev (sample)"))
        /\ SameValue(stats.p20, StatByLabel(ws_stats, "20th percentile"))
        /\ SameValue(stats.p60, StatByLabel(ws_stats, "60th percentile"))
        /\ SameValue(stats.p90, StatByLabel(ws_stats, "90th percentile"))
        /\ SameValue(stats.r_min, StatByLabel(ws_stats, "Min"))
        /\ SameValue(stats.q1, StatByLabel(ws_stats, "Q1"))
        /\ SameValue(stats.median, StatByLabel(ws_stats, "Median (Q2)"))
        /\ SameValue(stats.q3, StatByLabel(ws_stats, "Q3"))
        /\ SameValue(stats.r_max, StatByLabel(ws_stats, "Max"))
        /\ SameValue(stats.iqr, StatByLabel(ws_stats, "IQR (Q3 - Q1)"))
        /\ SameValue(stats.lower_bound, StatByLabel(ws_stats, "Lower bound (IQR)"))
        /\ SameValue(stats.upper_bound, StatByLabel(ws_stats, "Upper bound (IQR)"))

C9_CountEqualsListLength ==
    /\ (ValueOutliersDone /\ stats.n > 0) =>
          Len(outliers_df) =
              Cardinality({k \in DOMAIN returns :
                              mask_out(returns[k].Return, stats.lower_bound, stats.upper_bound)})
    /\ (SheetOutliersDone /\ Len(ws_ret) > 0) =>
          StatByLabel(ws_stats, "Outliers (count)") = Num(Len(ws_out), 1)

(***************************************************************************)
(* C10: for every return series with n >= 4 whose values are not all       *)
(* equal, LowerBound <= Q1 <= Median <= Q3 <= UpperBound, in value mode    *)
(* and in formula mode.                                                    *)
(***************************************************************************)
Ordered5(lb, q1, med, q3, ub) ==
    /\ IsNum(lb) /\ IsNum(q1) /\ IsNum(med) /\ IsNum(q3) /\ IsNum(ub)
    /\ RLeq(lb, q1) /\ RLeq(q1, med) /\ RLeq(med, q3) /\ RLeq(q3, ub)

C10_QuartileOrdering ==
    /\ (ValueStatsDone /\ stats.n >= 4 /\ ~AllEqual(ReturnValues(returns))) =>
          Ordered5(stats.lower_bound, stats.q1, stats.median, stats.q3, stats.upper_bound)
    /\ (SheetStatsDone /\ Len(ws_ret) >= 4 /\ ~AllEqual(ReturnValues(ws_ret))) =>
          Ordered5(StatByLabel(ws_stats, "Lower bound (IQR)"), StatByLabel(ws_stats, "Q1"),
                   StatByLabel(ws_stats, "Median"), StatByLabel(ws_stats, "Q3"),
                   StatByLabel(ws_stats, "Upper bound (IQR)"))

C10_Witness ==
    /\ ValueStatsDone /\ SheetStatsDone
    /\ stats.n >= 4 /\ ~AllEqual(ReturnValues(returns))
    /\ RLess(stats.lower_bound, stats.q1) /\ RLess(stats.q1, stats.median)
    /\ RLess(stats.median, stats.q3) /\ RLess(stats.q3, stats.upper_bound)
    /\ StatByLabel(ws_stats, "Q1") = stats.q1

(***************************************************************************)
(* C11: for every non-empty return series and the bin width 0.10, value    *)
(* mode and formula mode produce the same frequency table: the same        *)
(* number of bins, the same lower edge for each bin and the same count in  *)
(* each bin, the degenerate series (all returns equal and on a bin         *)
(* boundary) included.                                                     *)
(***************************************************************************)
C11_SameFrequencyTable ==
    (pcV = "done" /\ pcF = "done" /\ Len(returns) > 0) =>
        /\ Len(freq_df) = Len(ws_freq)
        /\ \A j \in DOMAIN freq_df :
            /\ ws_freq[j].lower = Num(freq_df[j].lower, 1)
            /\ ws_freq[j].Frequency = Num(freq_df[j].Frequency, 1)

(***************************************************************************)
(* C12: for every non-empty return series the generated bins are           *)
(* contiguous, each of width bin_width, and span exactly from              *)
(* lower_edge = floor(min(r)/bin_width)*bin_width to                       *)
(* upper_edge = ceil(max(r)/bin_width)*bin_width (raised by bin_width only *)
(* when it equals lower_edge): the first bin starts at lower_edge, the     *)
(* last bin ends at upper_edge, and there are                              *)
(* (upper_edge - lower_edge)/bin_width bins; in value mode and in formula  *)
(* mode.                                                                   *)
(***************************************************************************)
SpanLowerEdge(r) == (SeqMin(r) \div bin_width) * bin_width
SpanUpperEdge(r) ==
    LET up == -(((-SeqMax(r)) \div bin_width) * bin_width)
    IN IF up = SpanLowerEdge(r) THEN up + bin_width ELSE up
SpanBins(r) == (SpanUpperEdge(r) - SpanLowerEdge(r)) \div bin_width

C12_BinsSpanLowerToUpperEdge ==
    /\ (pcV = "done" /\ Len(returns) > 0) =>
          LET r == ReturnValues(returns)
          IN /\ Len(freq_df) = SpanBins(r)
             /\ freq_df[1].lower = SpanLowerEdge(r)
             /\ freq_df[Len(freq_df)].upper = SpanUpperEdge(r)
             /\ \A j \in DOMAIN freq_df :
                 /\ freq_df[j].upper = freq_df[j].lower + bin_width
                 /\ j > 1 => freq_df[j].lower = freq_df[j - 1].upper
    /\ (pcF = "done" /\ Len(ws_ret) > 0) =>
          LET r == ReturnValues(ws_ret)
          IN /\ Len(ws_freq) = SpanBins(r)
             /\ ws_freq[1].lower = Num(SpanLowerEdge(r), 1)
             /\ ws_freq[Len(ws_freq)].lower = Num(SpanUpperEdge(r) - G1, 1)
             /\ \A j \in DOMAIN ws_freq :
                 j > 1 => ws_freq[j].lower = RAdd(ws_freq[j - 1].lower, Num(G1, 1))

====
